---- MODULE Spec2Model ----
(***************************************************************************)
(* python-gil: the timing decorator report_time (time_decorator.py) and    *)
(* the two benchmark scripts that use it (gil_test_cpu_bound.py,           *)
(* gil_test_io_bound.py).                                                  *)
(*                                                                         *)
(* One main thread runs one of three programs, chosen in Init:             *)
(*   "cpu"  gil_test_cpu_bound.py, lines 25-33                             *)
(*   "io"   gil_test_io_bound.py, lines 24-26                              *)
(*   "unit" a caller that applies report_time to an operation drawn from   *)
(*          Funcs with arguments drawn from ArgTuples x KwargSets          *)
(* Worker threads are preemptively scheduled: every bytecode-level step of *)
(* main and of each worker is one action, and the actions interleave.      *)
(*                                                                         *)
(* Time.  time.time() is the wall clock `clock`.  Tick is the passing of   *)
(* one unit of real time: it advances the wall clock and every pending     *)
(* select timeout.  While some thread can run, a Tick is a scheduling      *)
(* delay; while every thread waits on a timeout, time passes freely.       *)
(* The wall clock can also be adjusted (settimeofday, NTP): TimeTime sets  *)
(* `clock` back and changes nothing else, since the select timeout runs on *)
(* the monotonic clock.  Delays and adjustments together draw on the       *)
(* budget MaxDisturb.                                                      *)
(***************************************************************************)
EXTENDS Integers, Sequences, FiniteSets, TLC

VARIABLES
    prog,          \* which program main runs
    pc,            \* main thread's position
    site,          \* the wrapper call the driver is making / has made
    i,             \* cpu driver: loop variable of `for i in range(10)`
    func,          \* report_time's closure variable func
    args,          \* wrapper's *args
    kwargs,        \* wrapper's **kwargs (a set of <<name, value>>)
    got,           \* what func was invoked with
    env,           \* func's bound parameters
    now,           \* wrapper's local now
    ret,           \* wrapper's local ret
    difftime,      \* wrapper's local difftime
    result,        \* outcome of the last completed wrapper call
    calls,         \* invocations of func in the current wrapper call
    readings,      \* time.time() calls in the current wrapper call
    t1, t2,        \* run_threaded's locals: references to Thread objects
    threads,       \* every Thread object created so far
    n,             \* count's local n, one cell per call frame
    mdecs,         \* decrements done by count's current frame on main
    mtimer,        \* remaining timeout of select's current call on main
    stmt,          \* run_sequential: which of its two statements runs
    mdone,         \* run_sequential: final frames of its finished calls
    clock,         \* the wall clock read by time.time()
    jitter,        \* scheduling delays so far
    adjusts,       \* wall-clock adjustments so far
    seq_times, thread_times,            \* cpu driver's lists
    thread_time, seq_time,              \* cpu driver's per-repetition values
    threaded_time,                      \* io driver's threaded_time
    out,           \* lines printed to standard output
    timings,       \* unit: elapsed time last reported for count(N), per N
    ncalls         \* unit: wrapper calls made so far

vars == <<prog, pc, site, i, func, args, kwargs, got, env, now, ret, difftime,
          result, calls, readings, t1, t2, threads, n, mdecs, mtimer, stmt,
          mdone, clock, jitter, adjusts, seq_times, thread_times,
          thread_time, seq_time, threaded_time, out, timings, ncalls>>

----
\* Bounds of the model.

\* count's argument in the cpu driver (10000000 in the source).
CountN == 1
\* Largest argument value the unit caller passes.
MaxVal == 1
\* Timing disturbances the environment injects: scheduling delays (units of
\* time that pass while some thread could run) and wall-clock adjustments.
MaxDisturb == 1

\* Program constants.
Reps == 10
SelectTimeout == 2

----
\* Values.

None == [t |-> "None", v |-> 0]
IntVal(x) == [t |-> "int", v |-> x]

NoThread == <<0, 0>>
NoResult == [kind |-> "none"]
Raised(e) == [kind |-> "raised", exc |-> e]

\* Inputs of the unit caller.
Vals == -1 .. MaxVal
ArgTuples == {<<>>} \cup {<<a>> : a \in Vals} \cup {<<a, b>> : a, b \in Vals}
KwargSets == {{}} \cup {{<<"b", v>>} : v \in Vals}
Funcs == {"four", "div", "count"}
DriverFuncs == {"run_threaded", "run_sequential"}

MainFrame == <<0, 1>>
NoEnv == [p \in {} |-> 0]

----
\* Calling convention of func(*args, **kwargs).

Params(f) ==
    CASE f = "div" -> <<"a", "b">>
      [] f = "count" -> <<"n">>
      [] OTHER -> <<>>

Pos(f, p) == CHOOSE j \in 1 .. Len(Params(f)) : Params(f)[j] = p
ParamNames(f) == {Params(f)[j] : j \in 1 .. Len(Params(f))}

\* Python binds positionals in order and keywords by name; too many
\* positionals, an unknown or doubly bound keyword, or an unbound parameter
\* is a TypeError raised by the call itself.
BindOk(f, a, k) ==
    /\ Len(a) <= Len(Params(f))
    /\ \A kv \in k : kv[1] \in ParamNames(f) /\ Pos(f, kv[1]) > Len(a)
    /\ \A j \in 1 .. Len(Params(f)) :
          j <= Len(a) \/ \E kv \in k : kv[1] = Params(f)[j]

BindEnv(f, a, k) ==
    [p \in ParamNames(f) |->
        IF Pos(f, p) <= Len(a) THEN a[Pos(f, p)]
        ELSE (CHOOSE kv \in k : kv[1] = p)[2]]

\* Python's a // b for b # 0: the quotient rounded towards minus infinity.
FloorDiv(a, b) == IF b > 0 THEN a \div b ELSE (0 - a) \div (0 - b)

\* The operations the unit caller wraps:
\*   four  = lambda: 2 + 2
\*   div   = lambda a, b: a // b      (ZeroDivisionError when b = 0)
\*   count = gil_test_cpu_bound.count (its loop is MainCountTest, MainCountDec)
BodyRaises(f, e) == f = "div" /\ e.b = 0

Body(f, e) ==
    CASE f = "four" -> IntVal(2 + 2)
      [] f = "div" -> IntVal(FloorDiv(e.a, e.b))
      [] OTHER -> None

----
\* time_decorator.py

\* A wrapper that forwards the positional arguments only.
ForwardNoKwargs(a, k) == [a |-> a, k |-> {}]

\* line 6: func(*args, **kwargs)
Forward(a, k) == [a |-> a, k |-> k]

\* line 7: time.time() - now
Difftime(t, t0) == t - t0

\* line 8: return ret, difftime
Pair(r, d) == <<r, d>>

----
\* gil_test_cpu_bound.py, count

\* A count whose n is one module-level variable.
CellShared(f) == MainFrame

\* line 4: n is a parameter of count, so every call frame has a cell of its own
Cell(f) == f

\* A loop that runs once more: while n >= 0.
LoopTestInclusive(x) == x >= 0

\* line 5: while n > 0
LoopTest(x) == x > 0

\* line 6: n -= 1
Decrement(x) == x - 1

\* gil_test_io_bound.py line 6: the timeout of select.select([], [], [], 2)
\* after one more unit of time
TimerTick(t) == IF t > 0 THEN t - 1 ELSE 0

----
\* Threads.

Alive(w) == threads[w].state = "running"
Workers == DOMAIN threads

\* threading.Thread(target=..., args=...): lines 11-12 (cpu), 10-11 (io)
NewThread(p) ==
    [state |-> "new",
     target |-> IF p = "cpu" THEN "count" ELSE "run_select",
     arg |-> IF p = "cpu" THEN CountN ELSE 0,
     pc |-> "-", decs |-> 0, timer |-> 0]

ThreadId(k) == <<IF prog = "cpu" THEN i + 1 ELSE 1, k>>

WorkerRunnable(w) ==
    /\ threads[w].state = "running"
    /\ ~(threads[w].pc = "wait" /\ threads[w].timer > 0)

\* A start that starts nothing.
StartThreadNot(th) == th

\* Thread.start(): the thread becomes runnable and will call its target
StartThread(th) == [th EXCEPT !.state = "running", !.pc = "call"]

\* A join that does not wait.
JoinReadyAlways(th) == TRUE

\* Thread.join() returns once the thread has terminated
JoinReady(th) == th.state = "done"

JoinBlocked(w) == threads[w].state # "new" /\ ~JoinReady(threads[w])

MainRunnable ==
    /\ pc \notin {"done", "raised"}
    /\ ~(pc = "sel" /\ mtimer > 0)
    /\ ~(pc = "rt_join1" /\ JoinBlocked(t1))
    /\ ~(pc = "rt_join2" /\ JoinBlocked(t2))

SomeRunnable == MainRunnable \/ \E w \in Workers : WorkerRunnable(w)

TimerPending ==
    \/ pc = "sel" /\ mtimer > 0
    \/ \E w \in Workers : Alive(w) /\ threads[w].pc = "wait" /\ threads[w].timer > 0

Halted == pc \in {"done", "raised"}

NoGot == [a |-> <<>>, k |-> {}]

wrapperVars == <<func, args, kwargs, got, env, now, ret, difftime, result,
                 calls, readings>>
threadVars == <<t1, t2, threads>>
frameVars == <<n, mdecs, mtimer, stmt, mdone>>
timeVars == <<clock, jitter, adjusts>>
driverVars == <<prog, site, i, seq_times, thread_times, thread_time, seq_time,
                threaded_time, out, timings, ncalls>>

InitOf(programs) ==
    /\ prog \in programs
    /\ pc = "drv"
    /\ site = "threaded"
    /\ i = 0
    /\ func = "-" /\ args = <<>> /\ kwargs = {} /\ got = NoGot /\ env = NoEnv
    /\ now = 0 /\ ret = None /\ difftime = 0 /\ result = NoResult
    /\ calls = 0 /\ readings = 0
    /\ t1 = NoThread /\ t2 = NoThread
    /\ threads = [w \in {} |-> NewThread("cpu")]
    /\ n = [f \in {} |-> 0]
    /\ mdecs = 0 /\ mtimer = 0 /\ stmt = 0 /\ mdone = <<>>
    /\ clock = 0 /\ jitter = 0 /\ adjusts = 0
    /\ seq_times = <<>> /\ thread_times = <<>>
    /\ thread_time = 0 /\ seq_time = 0 /\ threaded_time = 0
    /\ out = <<>>
    /\ timings = [x \in {} |-> 0]
    /\ ncalls = 0

Init == InitOf({"cpu", "io", "unit"})

----
\* The callers of the wrapper.

\* A call of a decorated function: control enters wrapper (line 4).
EnterWrapper(f, a, k) ==
    /\ func' = f /\ args' = a /\ kwargs' = k
    /\ got' = NoGot /\ env' = NoEnv
    /\ now' = 0 /\ ret' = None /\ difftime' = 0 /\ result' = NoResult
    /\ calls' = 0 /\ readings' = 0
    /\ pc' = "w_now"

\* The caller has taken the outcome: nothing of the call is left.
LeaveWrapper ==
    /\ func' = "-" /\ args' = <<>> /\ kwargs' = {}
    /\ got' = NoGot /\ env' = NoEnv
    /\ now' = 0 /\ ret' = None /\ difftime' = 0 /\ result' = NoResult
    /\ calls' = 0 /\ readings' = 0

\* An assignment in place of the append.
ListAssign(xs, x) == <<x>>

\* lines 30, 31: xs.append(x)
ListAppend(xs, x) == Append(xs, x)

\* sum(xs)
RECURSIVE Sum(_)
Sum(xs) == IF xs = <<>> THEN 0 ELSE Head(xs) + Sum(Tail(xs))

\* sum(xs)/len(xs), kept as numerator and divisor
Average(xs) == [num |-> Sum(xs), den |-> Len(xs)]

\* gil_test_cpu_bound.py lines 26-28: the loop head and the two calls.  At
\* pc = "drv", i is the number of completed iterations of range(10).
CpuCall ==
    /\ prog = "cpu" /\ pc = "drv" /\ i < Reps
    /\ EnterWrapper(IF site = "threaded" THEN "run_threaded" ELSE "run_sequential",
                    <<>>, {})
    /\ UNCHANGED <<threadVars, frameVars, timeVars, driverVars>>

\* line 27: _, thread_time = run_threaded()
CpuRecvThreaded ==
    /\ prog = "cpu" /\ pc = "drv_recv" /\ site = "threaded"
    /\ thread_time' = result.pair[2]
    /\ site' = "sequential"
    /\ pc' = "drv"
    /\ UNCHANGED <<wrapperVars, threadVars, frameVars, timeVars, prog, i,
                   seq_times, thread_times, seq_time, threaded_time, out,
                   timings, ncalls>>

\* lines 28-31: _, seq_time = run_sequential(); print; the two appends
CpuRecvSequential ==
    /\ prog = "cpu" /\ pc = "drv_recv" /\ site = "sequential"
    /\ seq_time' = result.pair[2]
    /\ out' = Append(out, <<seq_time', thread_time>>)
    /\ seq_times' = ListAppend(seq_times, seq_time')
    /\ thread_times' = ListAppend(thread_times, thread_time)
    /\ i' = i + 1
    /\ site' = "threaded"
    /\ pc' = "drv"
    /\ UNCHANGED <<wrapperVars, threadVars, frameVars, timeVars, prog,
                   thread_time, threaded_time, timings, ncalls>>

\* line 33: the averages; an empty list would raise ZeroDivisionError
CpuFinish ==
    /\ prog = "cpu" /\ pc = "drv" /\ i = Reps
    /\ IF Len(seq_times) = 0 \/ Len(thread_times) = 0
       THEN /\ pc' = "raised"
            /\ result' = Raised("ZeroDivisionError")
            /\ out' = out
       ELSE /\ pc' = "done"
            /\ result' = result
            /\ out' = Append(out, <<Average(seq_times), Average(thread_times)>>)
    /\ UNCHANGED <<func, args, kwargs, got, env, now, ret, difftime, calls,
                   readings, threadVars, frameVars, timeVars, prog, site, i,
                   seq_times, thread_times, thread_time, seq_time,
                   threaded_time, timings, ncalls>>

\* gil_test_io_bound.py lines 24-25: the two calls
IoCall ==
    /\ prog = "io" /\ pc = "drv" /\ site \in {"threaded", "sequential"}
    /\ EnterWrapper(IF site = "threaded" THEN "run_threaded" ELSE "run_sequential",
                    <<>>, {})
    /\ UNCHANGED <<threadVars, frameVars, timeVars, driverVars>>

\* line 24: _, threaded_time = run_threaded()
IoRecvThreaded ==
    /\ prog = "io" /\ pc = "drv_recv" /\ site = "threaded"
    /\ threaded_time' = result.pair[2]
    /\ site' = "sequential"
    /\ pc' = "drv"
    /\ UNCHANGED <<wrapperVars, threadVars, frameVars, timeVars, prog, i,
                   seq_times, thread_times, thread_time, seq_time, out,
                   timings, ncalls>>

\* line 25: _, seq_time = run_sequential()
IoRecvSequential ==
    /\ prog = "io" /\ pc = "drv_recv" /\ site = "sequential"
    /\ seq_time' = result.pair[2]
    /\ site' = "end"
    /\ pc' = "drv"
    /\ UNCHANGED <<wrapperVars, threadVars, frameVars, timeVars, prog, i,
                   seq_times, thread_times, thread_time, threaded_time, out,
                   timings, ncalls>>

\* line 26: print
IoFinish ==
    /\ prog = "io" /\ pc = "drv" /\ site = "end"
    /\ out' = Append(out, <<threaded_time, seq_time>>)
    /\ pc' = "done"
    /\ UNCHANGED <<wrapperVars, threadVars, frameVars, timeVars, prog, site, i,
                   seq_times, thread_times, thread_time, seq_time,
                   threaded_time, timings, ncalls>>

\* The unit caller: report_time(f)(*a, **k) for inputs of its choice, twice.
UnitCall ==
    /\ prog = "unit" /\ pc = "drv" /\ ncalls < 2
    /\ \E f \in Funcs, a \in ArgTuples, k \in KwargSets : EnterWrapper(f, a, k)
    /\ ncalls' = ncalls + 1
    /\ UNCHANGED <<threadVars, frameVars, timeVars, prog, site, i, seq_times,
                   thread_times, thread_time, seq_time, threaded_time, out,
                   timings>>

\* The unit caller takes the outcome, the pair or the exception, and notes
\* the time reported for count(N).
UnitRecv ==
    /\ prog = "unit" /\ pc = "drv_recv"
    /\ timings' = IF func = "count" /\ result.kind = "pair"
                  THEN (env.n :> result.pair[2]) @@ timings
                  ELSE timings
    /\ LeaveWrapper
    /\ pc' = "drv"
    /\ UNCHANGED <<threadVars, frameVars, timeVars, prog, site, i,
                   seq_times, thread_times, thread_time, seq_time,
                   threaded_time, out, ncalls>>

UnitFinish ==
    /\ prog = "unit" /\ pc = "drv" /\ ncalls = 2
    /\ pc' = "done"
    /\ UNCHANGED <<wrapperVars, threadVars, frameVars, timeVars, driverVars>>

----
\* time_decorator.py, wrapper (lines 4-8)

\* A wrapper that invokes func a second time before it keeps the result.
FuncReturnAgain(v) ==
    IF calls < 2
    THEN ret' = ret /\ result' = result /\ pc' = "w_call"
    ELSE ret' = v /\ result' = result /\ pc' = "w_diff"

\* func returns v to line 6: ret = func(...)
FuncReturn(v) ==
    /\ ret' = v
    /\ result' = result
    /\ pc' = "w_diff"

\* A wrapper that catches the exception and goes on to line 7.
RaiseSwallowed(e) ==
    /\ ret' = None
    /\ result' = result
    /\ pc' = "w_diff"

\* An exception leaves func: wrapper has no handler, so it leaves wrapper too.
\* The cpu and io scripts have none either and end; the unit caller goes on.
Raise(e) ==
    /\ ret' = ret
    /\ result' = Raised(e)
    /\ pc' = IF prog = "unit" THEN "drv_recv" ELSE "raised"

\* Where func's body starts.
Entry(f) ==
    CASE f = "run_threaded" -> "rt_new1"
      [] f = "run_sequential" -> "rs1"
      [] f = "count" -> "cnt_test"
      [] OTHER -> "pure"

\* time.time() "can return a lower value than a previous call if the system
\* clock has been set back between the two calls" (Python's documentation of
\* the function that lines 5 and 7 call).  An adjustment shows only in the
\* next reading, so it is taken together with that reading: d is how far the
\* wall clock has been set back since the reading before.
SetBack == IF jitter + adjusts < MaxDisturb THEN {0, 1} ELSE {0}

TimeTime(d) ==
    /\ clock' = clock - d
    /\ adjusts' = adjusts + d
    /\ jitter' = jitter
    /\ readings' = readings + 1

\* line 5: now = time.time()
WrapperNow ==
    /\ pc = "w_now"
    /\ \E d \in SetBack : TimeTime(d)
    /\ now' = clock'
    /\ pc' = "w_call"
    /\ UNCHANGED <<func, args, kwargs, got, env, ret, difftime, result, calls,
                   threadVars, frameVars, driverVars>>

\* line 6, the call: func(*args, **kwargs)
WrapperInvoke ==
    /\ pc = "w_call"
    /\ got' = Forward(args, kwargs)
    /\ calls' = calls + 1
    /\ IF BindOk(func, got'.a, got'.k)
       THEN /\ env' = BindEnv(func, got'.a, got'.k)
            /\ pc' = Entry(func)
            /\ n' = IF func = "count"
                    THEN (Cell(MainFrame) :> env'.n) @@ n
                    ELSE n
            /\ mdecs' = 0
            /\ UNCHANGED <<ret, result>>
       ELSE /\ Raise("TypeError")
            /\ UNCHANGED <<env, n, mdecs>>
    /\ UNCHANGED <<func, args, kwargs, now, difftime, readings, threadVars,
                   mtimer, stmt, mdone, timeVars, driverVars>>

\* line 7: difftime = time.time() - now
WrapperDiff ==
    /\ pc = "w_diff"
    /\ \E d \in SetBack : TimeTime(d)
    /\ difftime' = Difftime(clock', now)
    /\ pc' = "w_ret"
    /\ UNCHANGED <<func, args, kwargs, got, env, now, ret, result, calls,
                   threadVars, frameVars, driverVars>>

\* line 8: return ret, difftime
WrapperReturn ==
    /\ pc = "w_ret"
    /\ result' = [kind |-> "pair", pair |-> Pair(ret, difftime)]
    /\ pc' = "drv_recv"
    /\ UNCHANGED <<func, args, kwargs, got, env, now, ret, difftime, calls,
                   readings, threadVars, frameVars, timeVars, driverVars>>

----
\* The operations, on the main thread.

\* The body of an operation without a loop (the unit caller's four and div).
PureBody ==
    /\ pc = "pure"
    /\ IF BodyRaises(func, env)
       THEN Raise("ZeroDivisionError")
       ELSE FuncReturn(Body(func, env))
    /\ UNCHANGED <<func, args, kwargs, got, env, now, difftime, calls,
                   readings, threadVars, frameVars, timeVars, driverVars>>

\* count or run_select returns to its caller on the main thread: to wrapper
\* (func is count itself) or to run_sequential (lines 20-21, 19-20).
MainCalleeReturn ==
    IF func = "run_sequential"
    THEN /\ mdone' = Append(mdone, [n |-> IF prog = "cpu" THEN n[Cell(MainFrame)] ELSE 0,
                                     decs |-> mdecs])
         /\ IF stmt = 1
            THEN pc' = "rs2" /\ UNCHANGED <<ret, result>>
            ELSE FuncReturn(None)
    ELSE /\ mdone' = mdone
         /\ FuncReturn(None)

\* gil_test_cpu_bound.py line 5: while n > 0
MainCountTest ==
    /\ pc = "cnt_test"
    /\ IF LoopTest(n[Cell(MainFrame)])
       THEN pc' = "cnt_dec" /\ UNCHANGED <<ret, result, mdone>>
       ELSE MainCalleeReturn
    /\ UNCHANGED <<func, args, kwargs, got, env, now, difftime, calls,
                   readings, threadVars, n, mdecs, mtimer, stmt, timeVars,
                   driverVars>>

\* line 6: n -= 1
MainCountDec ==
    /\ pc = "cnt_dec"
    /\ n' = [n EXCEPT ![Cell(MainFrame)] = Decrement(@)]
    /\ mdecs' = mdecs + 1
    /\ pc' = "cnt_test"
    /\ UNCHANGED <<wrapperVars, threadVars, mtimer, stmt, mdone, timeVars,
                   driverVars>>

\* run_sequential's two statements: count(10000000) (cpu lines 20, 21) or
\* run_select() (io lines 19, 20), which calls select with its timeout (line 6)
SeqCall ==
    /\ pc \in {"rs1", "rs2"}
    /\ stmt' = IF pc = "rs1" THEN 1 ELSE 2
    /\ mdone' = IF pc = "rs1" THEN <<>> ELSE mdone
    /\ mdecs' = 0
    /\ IF prog = "cpu"
       THEN /\ n' = (Cell(MainFrame) :> CountN) @@ n
            /\ mtimer' = mtimer
            /\ pc' = "cnt_test"
       ELSE /\ n' = n
            /\ mtimer' = SelectTimeout
            /\ pc' = "sel"
    /\ UNCHANGED <<wrapperVars, threadVars, timeVars, driverVars>>

\* gil_test_io_bound.py line 6: select returns once its timeout has run out
MainSelectReturn ==
    /\ pc = "sel" /\ mtimer = 0
    /\ MainCalleeReturn
    /\ UNCHANGED <<func, args, kwargs, got, env, now, difftime, calls,
                   readings, threadVars, n, mdecs, mtimer, stmt, timeVars,
                   driverVars>>

----
\* run_threaded (gil_test_cpu_bound.py lines 11-16, gil_test_io_bound.py
\* lines 10-15), on the main thread.

Ref(k) == IF k = 1 THEN t1 ELSE t2

\* lines 11, 12: t = threading.Thread(target=..., args=...)
RtNew(k) ==
    /\ pc = (IF k = 1 THEN "rt_new1" ELSE "rt_new2")
    /\ t1' = IF k = 1 THEN ThreadId(1) ELSE t1
    /\ t2' = IF k = 2 THEN ThreadId(2) ELSE t2
    /\ threads' = (ThreadId(k) :> NewThread(prog)) @@ threads
    /\ pc' = IF k = 1 THEN "rt_new2" ELSE "rt_start1"
    /\ UNCHANGED <<wrapperVars, frameVars, timeVars, driverVars>>

\* lines 13, 14: t.start(); starting a thread twice is a RuntimeError
RtStart(k) ==
    /\ pc = (IF k = 1 THEN "rt_start1" ELSE "rt_start2")
    /\ IF threads[Ref(k)].state = "new"
       THEN /\ threads' = [threads EXCEPT ![Ref(k)] = StartThread(@)]
            /\ pc' = IF k = 1 THEN "rt_start2" ELSE "rt_join1"
            /\ UNCHANGED <<ret, result>>
       ELSE /\ Raise("RuntimeError")
            /\ threads' = threads
    /\ UNCHANGED <<func, args, kwargs, got, env, now, difftime, calls,
                   readings, t1, t2, frameVars, timeVars, driverVars>>

\* lines 15, 16: t.join(); joining a thread never started is a RuntimeError;
\* after line 16 run_threaded returns None
RtJoin(k) ==
    /\ pc = (IF k = 1 THEN "rt_join1" ELSE "rt_join2")
    /\ IF threads[Ref(k)].state = "new"
       THEN Raise("RuntimeError")
       ELSE /\ JoinReady(threads[Ref(k)])
            /\ IF k = 1
               THEN pc' = "rt_join2" /\ UNCHANGED <<ret, result>>
               ELSE FuncReturn(None)
    /\ UNCHANGED <<func, args, kwargs, got, env, now, difftime, calls,
                   readings, threadVars, frameVars, timeVars, driverVars>>

----
\* The worker threads.

\* The thread calls its target: count(10000000) binds n (cpu line 4);
\* run_select calls select with its timeout (io lines 5-6)
WorkerCall(w) ==
    /\ threads[w].state = "running" /\ threads[w].pc = "call"
    /\ IF threads[w].target = "count"
       THEN /\ n' = (Cell(w) :> threads[w].arg) @@ n
            /\ threads' = [threads EXCEPT ![w].pc = "test"]
       ELSE /\ n' = n
            /\ threads' = [threads EXCEPT ![w].pc = "wait",
                                          ![w].timer = SelectTimeout]
    /\ UNCHANGED <<pc, wrapperVars, t1, t2, mdecs, mtimer, stmt, mdone,
                   timeVars, driverVars>>

\* cpu line 5: while n > 0; when the test fails count returns and the thread
\* terminates
WorkerTest(w) ==
    /\ threads[w].state = "running" /\ threads[w].pc = "test"
    /\ threads' = IF LoopTest(n[Cell(w)])
                  THEN [threads EXCEPT ![w].pc = "dec"]
                  ELSE [threads EXCEPT ![w].pc = "-", ![w].state = "done"]
    /\ UNCHANGED <<pc, wrapperVars, t1, t2, frameVars, timeVars, driverVars>>

\* cpu line 6: n -= 1
WorkerDec(w) ==
    /\ threads[w].state = "running" /\ threads[w].pc = "dec"
    /\ n' = [n EXCEPT ![Cell(w)] = Decrement(@)]
    /\ threads' = [threads EXCEPT ![w].pc = "test", ![w].decs = @ + 1]
    /\ UNCHANGED <<pc, wrapperVars, t1, t2, mdecs, mtimer, stmt, mdone,
                   timeVars, driverVars>>

\* io line 6: select returns once its timeout has run out; run_select returns
\* and the thread terminates
WorkerWake(w) ==
    /\ threads[w].state = "running" /\ threads[w].pc = "wait"
    /\ threads[w].timer = 0
    /\ threads' = [threads EXCEPT ![w].pc = "-", ![w].state = "done"]
    /\ UNCHANGED <<pc, wrapperVars, t1, t2, frameVars, timeVars, driverVars>>

----
\* The environment: real time and the wall clock.

Tick ==
    /\ ~Halted
    /\ IF SomeRunnable THEN jitter + adjusts < MaxDisturb ELSE TimerPending
    /\ clock' = clock + 1
    /\ jitter' = IF SomeRunnable THEN jitter + 1 ELSE jitter
    /\ mtimer' = TimerTick(mtimer)
    /\ threads' = [w \in Workers |-> [threads[w] EXCEPT !.timer = TimerTick(@)]]
    /\ UNCHANGED <<pc, wrapperVars, t1, t2, n, mdecs, stmt, mdone, adjusts,
                   driverVars>>

----
\* The main thread of the two scripts.
ScriptStep ==
    \/ CpuCall \/ CpuRecvThreaded \/ CpuRecvSequential \/ CpuFinish
    \/ IoCall \/ IoRecvThreaded \/ IoRecvSequential \/ IoFinish
    \/ WrapperNow \/ WrapperInvoke \/ WrapperDiff \/ WrapperReturn
    \/ MainCountTest \/ MainCountDec \/ SeqCall \/ MainSelectReturn
    \/ \E k \in {1, 2} : RtNew(k) \/ RtStart(k) \/ RtJoin(k)

MainStep ==
    \/ ScriptStep
    \/ UnitCall \/ UnitRecv \/ UnitFinish \/ PureBody

WorkerStep(w) ==
    WorkerCall(w) \/ WorkerTest(w) \/ WorkerDec(w) \/ WorkerWake(w)

Next ==
    \/ MainStep
    \/ \E w \in Workers : WorkerStep(w)
    \/ Tick

Spec == Init /\ [][Next]_vars

\* The two scripts under a fair scheduler: it is fair to the main thread and
\* to each of the two worker threads of the run in progress, and time does
\* not stop.
Worker1 == t1 \in Workers /\ WorkerStep(t1)
Worker2 == t2 \in Workers /\ WorkerStep(t2)

ScriptNext ==
    \/ ScriptStep
    \/ \E w \in Workers : WorkerStep(w)
    \/ Tick

LiveSpec ==
    /\ InitOf({"cpu", "io"})
    /\ [][ScriptNext]_vars
    /\ WF_vars(ScriptStep)
    /\ WF_vars(Worker1)
    /\ WF_vars(Worker2)
    /\ WF_vars(Tick)

----
\* Properties.

\* What a direct call f(*a, **k) does: raise, or return a value.
Direct(f, a, k) ==
    IF ~BindOk(f, a, k) THEN Raised("TypeError")
    ELSE IF BodyRaises(f, BindEnv(f, a, k)) THEN Raised("ZeroDivisionError")
    ELSE [kind |-> "value", v |-> Body(f, BindEnv(f, a, k))]

\* The wrapper call has ended and its caller holds the outcome.
Ended == pc = "drv_recv" \/ pc = "raised"

\* C1: when a wrapper call has returned a pair, func was invoked with exactly
\* the positional and keyword arguments the wrapper was called with, and the
\* first component of the pair is the value that invocation returned; a call
\* whose direct invocation returns a value does return a pair.
C1_ArgsForwardedResultReturned ==
    Ended =>
        /\ calls >= 1 => got = [a |-> args, k |-> kwargs]
        /\ Direct(func, args, kwargs).kind = "value" =>
              /\ result.kind = "pair"
              /\ result.pair[1] = Direct(func, args, kwargs).v
              /\ result.pair[1] = ret

\* C1 witness: div called with one positional and one keyword argument
\* returned 1 // -1 = -1.
C1_Witness ==
    /\ pc = "drv_recv" /\ func = "div"
    /\ args = <<1>> /\ kwargs = {<<"b", -1>>}
    /\ result.kind = "pair" /\ result.pair[1] = IntVal(-1)

\* C2: in every timing pair the wrapper returns, the elapsed component is
\* non-negative.
C2_ElapsedNonNegative ==
    (pc = "drv_recv" /\ result.kind = "pair") => result.pair[2] >= 0

\* C3: if the wrapped operation raises, the wrapper call ends by raising that
\* same exception: the second clock reading is never taken, no pair is
\* returned, and a completed call has either raised or returned a pair.
C3_RaisePropagates ==
    /\ Ended => result.kind \in {"pair", "raised"}
    /\ (Ended /\ Direct(func, args, kwargs).kind = "raised") =>
          /\ result = Direct(func, args, kwargs)
          /\ readings = 1
          /\ difftime = 0
    /\ result.kind = "raised" => readings = 1 /\ Ended
    /\ result.kind = "pair" => readings = 2

\* C3 witness: div raised ZeroDivisionError in its body and the caller of the
\* wrapper got that exception.
C3_Witness ==
    /\ pc = "drv_recv" /\ func = "div" /\ calls = 1
    /\ result = Raised("ZeroDivisionError")

\* Positions of the main thread inside the wrapped operation.
BodyPcs == {"pure", "cnt_test", "cnt_dec", "rs1", "rs2", "sel", "rt_new1",
            "rt_new2", "rt_start1", "rt_start2", "rt_join1", "rt_join2"}

Terminated(w) == w \in Workers /\ threads[w].state = "done"

\* C4: the first clock reading is taken before the operation starts and the
\* second only after it has completed; for run_threaded the second reading
\* is taken, and the wrapper returns, only after both t1 and t2 have been
\* started and have terminated.
C4_ReadingsBracketOperation ==
    /\ calls >= 1 => readings >= 1
    /\ pc \in BodyPcs => readings = 1 /\ calls = 1
    /\ (\E w \in Workers : Alive(w)) =>
          readings = 1 /\ func = "run_threaded" /\ pc \in BodyPcs
    /\ (readings = 2 /\ func = "run_threaded") =>
          /\ t1 = ThreadId(1) /\ t2 = ThreadId(2)
          /\ Terminated(t1) /\ Terminated(t2)
    /\ (readings = 2 /\ func = "run_sequential") => Len(mdone) = 2
    /\ (readings = 2 /\ func = "count") => ~LoopTest(n[Cell(MainFrame)])

\* C4 witness: the wrapper has taken its second reading around the io
\* script's run_threaded, both of whose threads have terminated.
C4_Witness ==
    /\ prog = "io" /\ func = "run_threaded" /\ pc = "w_ret" /\ readings = 2
    /\ Terminated(t1) /\ Terminated(t2)

\* C5: the time reported for the io script's run_threaded is the timeout T
\* of one wait, up to the scheduling delay, and not 2T; the time reported
\* for its run_sequential is 2T, up to the scheduling delay.
C5_IoElapsed ==
    prog = "io" =>
        /\ site \in {"sequential", "end"} =>
              /\ threaded_time >= SelectTimeout
              /\ threaded_time <= SelectTimeout + jitter
        /\ site = "end" =>
              /\ seq_time >= 2 * SelectTimeout
              /\ seq_time <= 2 * SelectTimeout + jitter

\* As long as the wall clock has not been adjusted, the io script's times
\* are as C5 states them.
IoElapsedSteadyClock == adjusts = 0 => C5_IoElapsed

\* C6, in every state: func has been invoked at most once in a wrapper call,
\* and exactly once when the call returns.
C6_Once ==
    /\ calls <= 1
    /\ (pc \in {"w_diff", "w_ret"} \/ (pc = "drv_recv" /\ result.kind = "pair"))
          => calls = 1

\* C6, in every step: the wrapper's own lines 5, 7 and 8 change nothing but
\* the wrapper's locals; line 6 changes nothing but what the invocation of
\* func changes; a Thread object is created only by run_threaded's body.
C6_Step ==
    /\ (pc \in {"w_now", "w_diff", "w_ret"} /\ pc' # pc) =>
          UNCHANGED <<threadVars, frameVars, driverVars>>
    /\ (pc = "w_call" /\ pc' # pc) =>
          UNCHANGED <<threadVars, mtimer, stmt, mdone, driverVars>>
    /\ DOMAIN threads' # DOMAIN threads =>
          func = "run_threaded" /\ pc \in {"rt_new1", "rt_new2"}

\* C6: a wrapper call invokes func exactly once and has no effect of its
\* own; it creates no thread.
C6_WrapperHasNoEffect == []C6_Once /\ [][C6_Step]_vars

\* C6 witness: a wrapper call around run_threaded has returned after one
\* invocation, and threads exist.
C6_Witness ==
    /\ pc = "drv_recv" /\ func = "run_threaded" /\ calls = 1
    /\ result.kind = "pair" /\ Workers # {}

\* Decrements count(x) performs, and the value it leaves in n.
DecsOf(x) == IF x > 0 THEN x ELSE 0
FinalOf(x) == IF x >= 0 THEN 0 ELSE x

\* C7 without its last clause: count(N) run via the wrapper returns
\* (None, t); it performs exactly N decrements for N > 0 and none for
\* N <= 0, and leaves n at 0 for N >= 0.
C7_CountDecrements ==
    /\ (func = "count" /\ pc \in {"cnt_test", "cnt_dec"}) =>
          n[Cell(MainFrame)] + mdecs = env.n
    /\ (func = "count" /\ Ended /\ BindOk(func, args, kwargs)) =>
          /\ result.kind = "pair" /\ result.pair[1] = None
          /\ mdecs = DecsOf(env.n)
          /\ n[Cell(MainFrame)] = FinalOf(env.n)

\* C7 as stated: the above, and the reported time increases with N.  The
\* clause about the time is taken in its weakest reading: never decreasing,
\* and only while the wall clock has not been adjusted.
C7_CountTimeMonotone ==
    /\ C7_CountDecrements
    /\ adjusts = 0 =>
          \A x, y \in DOMAIN timings : x < y => timings[x] <= timings[y]

\* C7 witness: count(MaxVal) has returned through the wrapper after MaxVal
\* decrements.
C7_Witness ==
    /\ pc = "drv_recv" /\ func = "count" /\ result.kind = "pair"
    /\ env.n = MaxVal /\ mdecs = MaxVal /\ MaxVal > 0

\* A worker that has bound its n (it is in count's loop or has left it).
InLoop(w) == threads[w].pc \in {"test", "dec"} \/ threads[w].state = "done"

\* The final frame of worker w, as run_sequential records its own.
FinalFrame(w) == [n |-> n[Cell(w)], decs |-> threads[w].decs]

\* C8: in the cpu script's run_threaded no state is shared between the two
\* workers: at every moment a worker's counter is its argument less its own
\* decrements, whatever the other worker has done; each worker ends after
\* exactly N decrements with its counter at 0; the two final frames are
\* those of run_sequential's two calls; at most two workers are alive.
C8_WorkersIndependent ==
    prog = "cpu" =>
        /\ \A w \in Workers : InLoop(w) =>
              n[Cell(w)] = threads[w].arg - threads[w].decs
        /\ \A w \in Workers : threads[w].state = "done" =>
              n[Cell(w)] = 0 /\ threads[w].decs = CountN
        /\ (pc = "drv_recv" /\ site = "sequential") =>
              /\ mdone = <<FinalFrame(t1), FinalFrame(t2)>>
              /\ mdone = <<[n |-> 0, decs |-> CountN], [n |-> 0, decs |-> CountN]>>
        /\ Cardinality({w \in Workers : Alive(w)}) <= 2

\* C8 witness: both workers are alive inside their loops, the first with a
\* decrement done and the second between its loop test and its decrement.
C8_Witness ==
    /\ prog = "cpu" /\ t1 \in Workers /\ t2 \in Workers
    /\ Alive(t1) /\ Alive(t2)
    /\ threads[t1].pc = "test" /\ threads[t1].decs >= 1
    /\ threads[t2].pc = "dec"

\* C9: under fair scheduling every wrapper call around run_threaded or
\* run_sequential, in the cpu script and in the io script, returns a timing
\* pair.
C9_CallsReturn ==
    (pc = "w_now" /\ func \in DriverFuncs)
        ~> (pc = "drv_recv" /\ result.kind = "pair")

\* C9 witness: the io script has ended, both its calls having returned.
C9_Witness ==
    /\ prog = "io" /\ pc = "done" /\ Len(out) = 1
    /\ Terminated(t1) /\ Terminated(t2) /\ Len(mdone) = 2

\* The wrapper call in progress, from its entry to the moment its caller
\* takes the outcome.
InCall(f) == func = f /\ pc \notin {"drv", "done", "raised"}

\* C10: in the cpu script the timed runs never overlap: a worker is alive
\* only inside the run_threaded call of the repetition that created it, so
\* none is alive during a run_sequential call (its first reading included)
\* or a later repetition; each list holds one entry per finished
\* repetition, and exactly 10 when the averages are printed, which divide
\* by 10.
C10_RunsDoNotOverlap ==
    prog = "cpu" =>
        /\ \A w \in Workers : Alive(w) =>
              /\ InCall("run_threaded") /\ readings = 1
              /\ w[1] = i + 1
        /\ InCall("run_sequential") => \A w \in Workers : Terminated(w)
        /\ Len(seq_times) = i /\ Len(thread_times) = i
        /\ pc = "done" =>
              /\ Len(seq_times) = 10 /\ Len(thread_times) = 10
              /\ out[Len(out)][1].den = 10 /\ out[Len(out)][2].den = 10
              /\ Cardinality(Workers) = 20

\* C10 witness: the cpu script has printed its averages.
C10_Witness ==
    /\ prog = "cpu" /\ pc = "done" /\ i = 10
    /\ Len(out) = 11

====
